---------------------------- MODULE Spec2Model ----------------------------
(***************************************************************************)
(* A model of the proxychannel runtime core.                               *)
(*                                                                         *)
(*  - the service lifecycle coordinator of proxychannel.go: Run and        *)
(*    RunContext, the goroutines they start (runExtensionManager, the      *)
(*    goroutine running runServerBlocking, the second-signal watcher, the  *)
(*    Setup goroutine), the two signal channels, the serverDone channel,   *)
(*    the wait group and the http.Server they drive;                       *)
(*  - the certificate authority of cert/certificate.go: GenerateTLSConfig, *)
(*    GeneratePem and template, called by concurrent callers over an       *)
(*    optional cache.                                                      *)
(*                                                                         *)
(* Each goroutine is a program counter; one action is one step of the code *)
(* between two points where another goroutine can observe or interfere.    *)
(***************************************************************************)
EXTENDS Integers, Sequences, FiniteSets, TLC

(***************************************************************************)
(* Bounds of the model.                                                    *)
(***************************************************************************)
\* termination signals the environment delivers in one run
MaxSignals == 2
\* connections in flight at the same time
MaxConns == 1

(***************************************************************************)
(* Lifecycle state (proxychannel.go).                                      *)
(***************************************************************************)
VARIABLES
    entry,        \* the top-level call: "Run" or "RunContext"
    parentCtx,    \* the caller's context: "nil", "background", "live", "cancelled"
    proc,         \* the process: "alive", or how it ended
    mainPc,       \* the goroutine that called Run / RunContext
    srvPc,        \* the goroutine executing runServerBlocking
    emPc,         \* the goroutine executing runExtensionManager
    setupPc,      \* the goroutine executing extensionManager.Setup
    watchPc,      \* the second-signal watcher started by runServer
    rsReg,        \* runServer's signalChan is registered with signal.Notify
    rsBuf,        \* signals buffered in runServer's signalChan (capacity 1)
    emReg,        \* runExtensionManager's signalChan is registered
    emBuf,        \* signals buffered in runExtensionManager's signalChan
    serverDone,   \* pc.serverDone is closed
    waitGroup,    \* pc.waitGroup's counter
    inShutdown,   \* http.Server: Shutdown has been called
    listener,     \* http.Server's listening socket: "none", "open", "closed"
    conns,        \* connections being served
    cancelCalled, \* runServerBlocking's cancel() has run
    srvErr,       \* what ListenAndServe returned: "none" while it has not
    shutdownErr,  \* what server.Shutdown returned: "none" while it has not
    retErr,       \* what RunContext returned
    \* history of the run, read by the properties only
    sigCount,     \* termination signals delivered so far
    lateSignal,   \* a second signal was delivered before Cleanup completed
    everConn,     \* a connection was accepted at some point
    cleanupCalls, \* invocations of extensionManager.Cleanup
    doneObs,      \* what held when runExtensionManager received from serverDone
    cleanupObs    \* what held when Cleanup was invoked

lifeVars == <<entry, parentCtx, proc, mainPc, srvPc, emPc, setupPc, watchPc,
              rsReg, rsBuf, emReg, emBuf, serverDone, waitGroup, inShutdown,
              listener, conns, cancelCalled, srvErr, shutdownErr, retErr,
              sigCount, lateSignal, everConn, cleanupCalls, doneObs, cleanupObs>>

(***************************************************************************)
(* Certificate authority state (cert/certificate.go).                      *)
(***************************************************************************)
VARIABLES
    cacheOn,      \* c.cache != nil
    pool,         \* the host strings the callers of this run ask for
    cache,        \* the cache's entries: bare host -> certificate
    cpc,          \* where each caller is in GenerateTLSConfig
    cur,          \* each caller's call in progress
    log,          \* the completed calls, in order of completion
    started,      \* calls started so far
    nextKey       \* the next key pair rsa.GenerateKey draws

certVars == <<cacheOn, pool, cache, cpc, cur, log, started, nextKey>>

vars == <<lifeVars, certVars>>

ErrServerClosed == "ErrServerClosed"

NoObs == [seen |-> FALSE]

\* The facts about the listener at one moment.
Observe == [seen         |-> TRUE,
            accepting    |-> listener = "open",
            served       |-> srvErr # "none",
            shutdownOver |-> shutdownErr # "none",
            shutdownOn   |-> inShutdown,
            setup        |-> setupPc]

Alive == proc = "alive"

(***************************************************************************)
(* NewProxychannel, then the caller picks Run or RunContext(ctx).          *)
(***************************************************************************)
NewProxychannel ==
    /\ proc = "alive"
    /\ mainPc = "start" /\ srvPc = "none" /\ emPc = "none"
    /\ setupPc = "none" /\ watchPc = "none"
    /\ rsReg = FALSE /\ rsBuf = 0 /\ emReg = FALSE /\ emBuf = 0
    /\ serverDone = FALSE
    /\ waitGroup = 0
    /\ inShutdown = FALSE /\ listener = "none" /\ conns = 0
    /\ cancelCalled = FALSE
    /\ srvErr = "none" /\ shutdownErr = "none" /\ retErr = "none"
    /\ sigCount = 0 /\ lateSignal = FALSE /\ everConn = FALSE
    /\ cleanupCalls = 0 /\ doneObs = NoObs /\ cleanupObs = NoObs

LifeInit ==
    /\ NewProxychannel
    /\ entry \in {"Run", "RunContext"}
    /\ parentCtx \in (IF entry = "Run" THEN {"background"}
                                       ELSE {"nil", "live", "cancelled"})

(***************************************************************************)
(* The environment: the operating system delivering a termination signal   *)
(* (SIGHUP, SIGINT, SIGTERM, SIGQUIT).  os/signal sends it to every        *)
(* registered channel without blocking: a full channel drops it.  With no  *)
(* channel registered the signal keeps its default action and kills the    *)
(* process.                                                                *)
(***************************************************************************)
CleanupCompleted == emPc \in {"defer", "exited"}

DeliverSignal ==
    /\ Alive
    /\ sigCount < MaxSignals
    /\ sigCount' = sigCount + 1
    /\ lateSignal' = (lateSignal \/ (sigCount >= 1 /\ ~CleanupCompleted))
    /\ IF ~rsReg /\ ~emReg
         THEN /\ proc' = "killed"
              /\ UNCHANGED <<rsBuf, emBuf>>
         ELSE /\ rsBuf' = (IF rsReg THEN 1 ELSE rsBuf)
              /\ emBuf' = (IF emReg THEN 1 ELSE emBuf)
              /\ UNCHANGED proc
    /\ UNCHANGED <<entry, parentCtx, mainPc, srvPc, emPc, setupPc, watchPc,
                   rsReg, emReg, serverDone, waitGroup, inShutdown, listener,
                   conns, cancelCalled, srvErr, shutdownErr, retErr,
                   everConn, cleanupCalls, doneObs, cleanupObs>>
    /\ UNCHANGED certVars

\* The caller of RunContext cancels the context it passed.
CancelContext ==
    /\ Alive
    /\ entry = "RunContext"
    /\ parentCtx = "live"
    /\ parentCtx' = "cancelled"
    /\ UNCHANGED <<entry, proc, mainPc, srvPc, emPc, setupPc, watchPc,
                   rsReg, rsBuf, emReg, emBuf, serverDone, waitGroup,
                   inShutdown, listener, conns, cancelCalled, srvErr,
                   shutdownErr, retErr, sigCount, lateSignal, everConn,
                   cleanupCalls, doneObs, cleanupObs>>
    /\ UNCHANGED certVars

(***************************************************************************)
(* Run (lines 145-150) and runServer (lines 89-132).                       *)
(***************************************************************************)
\* pc.waitGroup.Add(1); go pc.runExtensionManager()
Run_GoExtensionManager ==
    /\ Alive /\ entry = "Run" /\ mainPc = "start"
    /\ waitGroup' = waitGroup + 1
    /\ emPc' = "start"
    /\ mainPc' = "rs_go"
    /\ UNCHANGED <<entry, parentCtx, proc, srvPc, setupPc, watchPc,
                   rsReg, rsBuf, emReg, emBuf, serverDone, inShutdown,
                   listener, conns, cancelCalled, srvErr, shutdownErr, retErr,
                   sigCount, lateSignal, everConn, cleanupCalls, doneObs,
                   cleanupObs>>
    /\ UNCHANGED certVars

\* go func() { if err := pc.runServerBlocking(...); ... }()
runServer_GoListener ==
    /\ Alive /\ mainPc = "rs_go"
    /\ srvPc' = "start"
    /\ mainPc' = "rs_notify"
    /\ UNCHANGED <<entry, parentCtx, proc, emPc, setupPc, watchPc,
                   rsReg, rsBuf, emReg, emBuf, serverDone, waitGroup,
                   inShutdown, listener, conns, cancelCalled, srvErr,
                   shutdownErr, retErr, sigCount, lateSignal, everConn,
                   cleanupCalls, doneObs, cleanupObs>>
    /\ UNCHANGED certVars

\* signalChan := make(chan os.Signal, 1); signal.Notify(signalChan, ...)
runServer_Notify ==
    /\ Alive /\ mainPc = "rs_notify"
    /\ rsReg' = TRUE
    /\ mainPc' = "rs_recv"
    /\ UNCHANGED <<entry, parentCtx, proc, srvPc, emPc, setupPc, watchPc,
                   rsBuf, emReg, emBuf, serverDone, waitGroup,
                   inShutdown, listener, conns, cancelCalled, srvErr,
                   shutdownErr, retErr, sigCount, lateSignal, everConn,
                   cleanupCalls, doneObs, cleanupObs>>
    /\ UNCHANGED certVars

\* <-signalChan
runServer_RecvSignal ==
    /\ Alive /\ mainPc = "rs_recv"
    /\ rsBuf > 0
    /\ rsBuf' = rsBuf - 1
    /\ mainPc' = "rs_gowatch"
    /\ UNCHANGED <<entry, parentCtx, proc, srvPc, emPc, setupPc, watchPc,
                   rsReg, emReg, emBuf, serverDone, waitGroup,
                   inShutdown, listener, conns, cancelCalled, srvErr,
                   shutdownErr, retErr, sigCount, lateSignal, everConn,
                   cleanupCalls, doneObs, cleanupObs>>
    /\ UNCHANGED certVars

\* go func() { <-signalChan; ...; os.Exit(1) }()
runServer_GoWatcher ==
    /\ Alive /\ mainPc = "rs_gowatch"
    /\ watchPc' = "recv"
    /\ mainPc' = "stop"
    /\ UNCHANGED <<entry, parentCtx, proc, srvPc, emPc, setupPc,
                   rsReg, rsBuf, emReg, emBuf, serverDone, waitGroup,
                   inShutdown, listener, conns, cancelCalled, srvErr,
                   shutdownErr, retErr, sigCount, lateSignal, everConn,
                   cleanupCalls, doneObs, cleanupObs>>
    /\ UNCHANGED certVars

\* The watcher: <-signalChan; Logger.Error(...); os.Exit(1)
watcher_ForceExit ==
    /\ Alive /\ watchPc = "recv"
    /\ rsBuf > 0
    /\ rsBuf' = rsBuf - 1
    /\ watchPc' = "exited"
    /\ proc' = "exit_forced"
    /\ UNCHANGED <<entry, parentCtx, mainPc, srvPc, emPc, setupPc,
                   rsReg, emReg, emBuf, serverDone, waitGroup,
                   inShutdown, listener, conns, cancelCalled, srvErr,
                   shutdownErr, retErr, sigCount, lateSignal, everConn,
                   cleanupCalls, doneObs, cleanupObs>>
    /\ UNCHANGED certVars

\* stop(): pc.server.Shutdown(gracefulCtx) begins: the server is marked as
\* shutting down and its listener is closed.
stop_Shutdown ==
    /\ Alive /\ mainPc = "stop"
    /\ inShutdown' = TRUE
    /\ listener' = (IF listener = "open" THEN "closed" ELSE listener)
    /\ mainPc' = "stop_drain"
    /\ UNCHANGED <<entry, parentCtx, proc, srvPc, emPc, setupPc, watchPc,
                   rsReg, rsBuf, emReg, emBuf, serverDone, waitGroup,
                   conns, cancelCalled, srvErr, shutdownErr, retErr,
                   sigCount, lateSignal, everConn, cleanupCalls, doneObs,
                   cleanupObs>>
    /\ UNCHANGED certVars

\* Shutdown returns nil once no connection is in flight.
stop_Drained ==
    /\ Alive /\ mainPc = "stop_drain"
    /\ conns = 0
    /\ shutdownErr' = "nil"
    /\ mainPc' = "rs_close"
    /\ UNCHANGED <<entry, parentCtx, proc, srvPc, emPc, setupPc, watchPc,
                   rsReg, rsBuf, emReg, emBuf, serverDone, waitGroup,
                   inShutdown, listener, conns, cancelCalled, srvErr, retErr,
                   sigCount, lateSignal, everConn, cleanupCalls, doneObs,
                   cleanupObs>>
    /\ UNCHANGED certVars

\* Shutdown returns context.DeadlineExceeded: the 5 s of gracefulCtx are
\* over and connections are still in flight.  stop() only logs the error.
stop_Deadline ==
    /\ Alive /\ mainPc = "stop_drain"
    /\ conns > 0
    /\ shutdownErr' = "deadline"
    /\ mainPc' = "rs_close"
    /\ UNCHANGED <<entry, parentCtx, proc, srvPc, emPc, setupPc, watchPc,
                   rsReg, rsBuf, emReg, emBuf, serverDone, waitGroup,
                   inShutdown, listener, conns, cancelCalled, srvErr, retErr,
                   sigCount, lateSignal, everConn, cleanupCalls, doneObs,
                   cleanupObs>>
    /\ UNCHANGED certVars

\* runServer returns: defer close(pc.serverDone).  Closing a closed channel
\* panics, and nothing recovers: the process dies.
runServer_Close ==
    /\ Alive /\ mainPc = "rs_close"
    /\ IF serverDone
         THEN /\ proc' = "panic"
              /\ UNCHANGED <<serverDone, mainPc>>
         ELSE /\ serverDone' = TRUE
              /\ mainPc' = "wait"
              /\ UNCHANGED proc
    /\ UNCHANGED <<entry, parentCtx, srvPc, emPc, setupPc, watchPc,
                   rsReg, rsBuf, emReg, emBuf, waitGroup,
                   inShutdown, listener, conns, cancelCalled, srvErr,
                   shutdownErr, retErr, sigCount, lateSignal, everConn,
                   cleanupCalls, doneObs, cleanupObs>>
    /\ UNCHANGED certVars

\* pc.waitGroup.Wait(), then Run returns / RunContext returns err.
Run_Wait ==
    /\ Alive /\ mainPc = "wait"
    /\ waitGroup = 0
    /\ mainPc' = "returned"
    /\ retErr' = (IF entry = "RunContext" THEN srvErr ELSE retErr)
    /\ UNCHANGED <<entry, parentCtx, proc, srvPc, emPc, setupPc, watchPc,
                   rsReg, rsBuf, emReg, emBuf, serverDone, waitGroup,
                   inShutdown, listener, conns, cancelCalled, srvErr,
                   shutdownErr, sigCount, lateSignal, everConn, cleanupCalls,
                   doneObs, cleanupObs>>
    /\ UNCHANGED certVars

(***************************************************************************)
(* RunContext (lines 135-142): the caller's goroutine itself executes      *)
(* runServerBlocking.                                                      *)
(***************************************************************************)
RunContext_GoExtensionManager ==
    /\ Alive /\ entry = "RunContext" /\ mainPc = "start"
    /\ waitGroup' = waitGroup + 1
    /\ emPc' = "start"
    /\ mainPc' = "blocking"
    /\ srvPc' = "start"
    /\ UNCHANGED <<entry, parentCtx, proc, setupPc, watchPc,
                   rsReg, rsBuf, emReg, emBuf, serverDone, inShutdown,
                   listener, conns, cancelCalled, srvErr, shutdownErr, retErr,
                   sigCount, lateSignal, everConn, cleanupCalls, doneObs,
                   cleanupObs>>
    /\ UNCHANGED certVars

(***************************************************************************)
(* runServerBlocking (lines 74-87), run by the listener goroutine of       *)
(* runServer or by the caller of RunContext.  The context it derives is    *)
(* only handed to the server as BaseContext, the context of the requests:  *)
(* http.Server.ListenAndServe does not watch it.                           *)
(***************************************************************************)
\* ctx, cancel := context.WithCancel(parentCtx); pc.server.ListenAndServe()
\* starts: a server already shut down answers ErrServerClosed; otherwise
\* net.Listen binds the address, or fails.
rsb_ListenAndServe ==
    /\ Alive /\ srvPc = "start"
    /\ IF inShutdown
         THEN /\ srvErr' = ErrServerClosed
              /\ srvPc' = "close"
              /\ UNCHANGED listener
         ELSE \/ /\ listener' = "open"
                 /\ srvPc' = "serve"
                 /\ UNCHANGED srvErr
              \/ /\ srvErr' = "listen error"
                 /\ srvPc' = "close"
                 /\ UNCHANGED listener
    /\ UNCHANGED <<entry, parentCtx, proc, mainPc, emPc, setupPc, watchPc,
                   rsReg, rsBuf, emReg, emBuf, serverDone, waitGroup,
                   inShutdown, conns, cancelCalled, shutdownErr, retErr,
                   sigCount, lateSignal, everConn, cleanupCalls, doneObs,
                   cleanupObs>>
    /\ UNCHANGED certVars

\* Serve's loop accepts a connection and serves it on its own goroutine.
srv_Accept ==
    /\ Alive /\ srvPc = "serve"
    /\ listener = "open"
    /\ conns < MaxConns
    /\ conns' = conns + 1
    /\ everConn' = TRUE
    /\ UNCHANGED <<entry, parentCtx, proc, mainPc, srvPc, emPc, setupPc,
                   watchPc, rsReg, rsBuf, emReg, emBuf, serverDone, waitGroup,
                   inShutdown, listener, cancelCalled, srvErr, shutdownErr,
                   retErr, sigCount, lateSignal, cleanupCalls, doneObs,
                   cleanupObs>>
    /\ UNCHANGED certVars

\* A connection in flight completes.
srv_ConnDone ==
    /\ Alive
    /\ conns > 0
    /\ conns' = conns - 1
    /\ UNCHANGED <<entry, parentCtx, proc, mainPc, srvPc, emPc, setupPc,
                   watchPc, rsReg, rsBuf, emReg, emBuf, serverDone, waitGroup,
                   inShutdown, listener, cancelCalled, srvErr, shutdownErr,
                   retErr, sigCount, lateSignal, everConn, cleanupCalls,
                   doneObs, cleanupObs>>
    /\ UNCHANGED certVars

\* Accept fails because Shutdown closed the listener: ListenAndServe
\* returns ErrServerClosed.
rsb_ServeClosed ==
    /\ Alive /\ srvPc = "serve"
    /\ inShutdown
    /\ srvErr' = ErrServerClosed
    /\ srvPc' = "close"
    /\ UNCHANGED <<entry, parentCtx, proc, mainPc, emPc, setupPc, watchPc,
                   rsReg, rsBuf, emReg, emBuf, serverDone, waitGroup,
                   inShutdown, listener, conns, cancelCalled, shutdownErr,
                   retErr, sigCount, lateSignal, everConn, cleanupCalls,
                   doneObs, cleanupObs>>
    /\ UNCHANGED certVars

\* Accept fails for good while the server is not shutting down: Serve closes
\* its listener (defer l.Close()) and ListenAndServe returns the error.
rsb_ServeError ==
    /\ Alive /\ srvPc = "serve"
    /\ ~inShutdown
    /\ listener' = "closed"
    /\ srvErr' = "accept error"
    /\ srvPc' = "close"
    /\ UNCHANGED <<entry, parentCtx, proc, mainPc, emPc, setupPc, watchPc,
                   rsReg, rsBuf, emReg, emBuf, serverDone, waitGroup,
                   inShutdown, conns, cancelCalled, shutdownErr, retErr,
                   sigCount, lateSignal, everConn, cleanupCalls, doneObs,
                   cleanupObs>>
    /\ UNCHANGED certVars

\* defer close(pc.serverDone), the first deferred call to run.
rsb_Close ==
    /\ Alive /\ srvPc = "close"
    /\ IF serverDone
         THEN /\ proc' = "panic"
              /\ UNCHANGED <<serverDone, srvPc>>
         ELSE /\ serverDone' = TRUE
              /\ srvPc' = "cancel"
              /\ UNCHANGED proc
    /\ UNCHANGED <<entry, parentCtx, mainPc, emPc, setupPc, watchPc,
                   rsReg, rsBuf, emReg, emBuf, waitGroup,
                   inShutdown, listener, conns, cancelCalled, srvErr,
                   shutdownErr, retErr, sigCount, lateSignal, everConn,
                   cleanupCalls, doneObs, cleanupObs>>
    /\ UNCHANGED certVars

\* defer cancel()
rsb_Cancel ==
    /\ Alive /\ srvPc = "cancel"
    /\ cancelCalled' = TRUE
    /\ srvPc' = "return"
    /\ UNCHANGED <<entry, parentCtx, proc, mainPc, emPc, setupPc, watchPc,
                   rsReg, rsBuf, emReg, emBuf, serverDone, waitGroup,
                   inShutdown, listener, conns, srvErr, shutdownErr, retErr,
                   sigCount, lateSignal, everConn, cleanupCalls, doneObs,
                   cleanupObs>>
    /\ UNCHANGED certVars

\* The test of line 105 with its comparison inverted.
ListenerFatal_Inverted(err) == err = ErrServerClosed

\* Whether the listener goroutine of runServer treats err as fatal
\* (line 105): err != http.ErrServerClosed.
ListenerFatal(err) == err # ErrServerClosed

\* runServer's listener goroutine, lines 105-108: os.Exit(1) on any error
\* but ErrServerClosed.
listener_Return ==
    /\ Alive /\ entry = "Run" /\ srvPc = "return"
    /\ IF ListenerFatal(srvErr)
         THEN /\ proc' = "exit_listen"
              /\ UNCHANGED srvPc
         ELSE /\ srvPc' = "exited"
              /\ UNCHANGED proc
    /\ UNCHANGED <<entry, parentCtx, mainPc, emPc, setupPc, watchPc,
                   rsReg, rsBuf, emReg, emBuf, serverDone, waitGroup,
                   inShutdown, listener, conns, cancelCalled, srvErr,
                   shutdownErr, retErr, sigCount, lateSignal, everConn,
                   cleanupCalls, doneObs, cleanupObs>>
    /\ UNCHANGED certVars

\* RunContext, line 138: err := pc.runServerBlocking(ctx) returns.
RunContext_Served ==
    /\ Alive /\ entry = "RunContext" /\ srvPc = "return"
    /\ mainPc = "blocking"
    /\ srvPc' = "exited"
    /\ mainPc' = "wait"
    /\ UNCHANGED <<entry, parentCtx, proc, emPc, setupPc, watchPc,
                   rsReg, rsBuf, emReg, emBuf, serverDone, waitGroup,
                   inShutdown, listener, conns, cancelCalled, srvErr,
                   shutdownErr, retErr, sigCount, lateSignal, everConn,
                   cleanupCalls, doneObs, cleanupObs>>
    /\ UNCHANGED certVars

(***************************************************************************)
(* runExtensionManager (lines 51-72) and the Setup goroutine.              *)
(***************************************************************************)
\* go pc.extensionManager.Setup()
em_GoSetup ==
    /\ Alive /\ emPc = "start"
    /\ setupPc' = "spawned"
    /\ emPc' = "notify"
    /\ UNCHANGED <<entry, parentCtx, proc, mainPc, srvPc, watchPc,
                   rsReg, rsBuf, emReg, emBuf, serverDone, waitGroup,
                   inShutdown, listener, conns, cancelCalled, srvErr,
                   shutdownErr, retErr, sigCount, lateSignal, everConn,
                   cleanupCalls, doneObs, cleanupObs>>
    /\ UNCHANGED certVars

\* The Setup goroutine is scheduled and enters Setup().
Setup_Begin ==
    /\ Alive /\ setupPc = "spawned"
    /\ setupPc' = "running"
    /\ UNCHANGED <<entry, parentCtx, proc, mainPc, srvPc, emPc, watchPc,
                   rsReg, rsBuf, emReg, emBuf, serverDone, waitGroup,
                   inShutdown, listener, conns, cancelCalled, srvErr,
                   shutdownErr, retErr, sigCount, lateSignal, everConn,
                   cleanupCalls, doneObs, cleanupObs>>
    /\ UNCHANGED certVars

\* Setup() returns; it may as well never do.
Setup_Return ==
    /\ Alive /\ setupPc = "running"
    /\ setupPc' = "returned"
    /\ UNCHANGED <<entry, parentCtx, proc, mainPc, srvPc, emPc, watchPc,
                   rsReg, rsBuf, emReg, emBuf, serverDone, waitGroup,
                   inShutdown, listener, conns, cancelCalled, srvErr,
                   shutdownErr, retErr, sigCount, lateSignal, everConn,
                   cleanupCalls, doneObs, cleanupObs>>
    /\ UNCHANGED certVars

\* signalChan := make(chan os.Signal, 1); signal.Notify(signalChan, ...)
em_Notify ==
    /\ Alive /\ emPc = "notify"
    /\ emReg' = TRUE
    /\ emPc' = "recv"
    /\ UNCHANGED <<entry, parentCtx, proc, mainPc, srvPc, setupPc, watchPc,
                   rsReg, rsBuf, emBuf, serverDone, waitGroup,
                   inShutdown, listener, conns, cancelCalled, srvErr,
                   shutdownErr, retErr, sigCount, lateSignal, everConn,
                   cleanupCalls, doneObs, cleanupObs>>
    /\ UNCHANGED certVars

\* <-signalChan
em_RecvSignal ==
    /\ Alive /\ emPc = "recv"
    /\ emBuf > 0
    /\ emBuf' = emBuf - 1
    /\ emPc' = "await_done"
    /\ UNCHANGED <<entry, parentCtx, proc, mainPc, srvPc, setupPc, watchPc,
                   rsReg, rsBuf, emReg, serverDone, waitGroup,
                   inShutdown, listener, conns, cancelCalled, srvErr,
                   shutdownErr, retErr, sigCount, lateSignal, everConn,
                   cleanupCalls, doneObs, cleanupObs>>
    /\ UNCHANGED certVars

\* A runExtensionManager that does not wait for the completion marker.
ServerDoneReadable_NoWait == TRUE

\* What lets the receive of line 68 go on: pc.serverDone is closed (nothing
\* is ever sent on it).
ServerDoneReadable == serverDone

\* <-pc.serverDone
em_ServerDone ==
    /\ Alive /\ emPc = "await_done"
    /\ ServerDoneReadable
    /\ doneObs' = Observe
    /\ emPc' = "cleanup"
    /\ UNCHANGED <<entry, parentCtx, proc, mainPc, srvPc, setupPc, watchPc,
                   rsReg, rsBuf, emReg, emBuf, serverDone, waitGroup,
                   inShutdown, listener, conns, cancelCalled, srvErr,
                   shutdownErr, retErr, sigCount, lateSignal, everConn,
                   cleanupCalls, cleanupObs>>
    /\ UNCHANGED certVars

\* pc.extensionManager.Cleanup() is invoked.
em_Cleanup ==
    /\ Alive /\ emPc = "cleanup"
    /\ cleanupCalls' = cleanupCalls + 1
    /\ cleanupObs' = Observe
    /\ emPc' = "cleaning"
    /\ UNCHANGED <<entry, parentCtx, proc, mainPc, srvPc, setupPc, watchPc,
                   rsReg, rsBuf, emReg, emBuf, serverDone, waitGroup,
                   inShutdown, listener, conns, cancelCalled, srvErr,
                   shutdownErr, retErr, sigCount, lateSignal, everConn,
                   doneObs>>
    /\ UNCHANGED certVars

\* Cleanup() returns.
em_CleanupReturn ==
    /\ Alive /\ emPc = "cleaning"
    /\ emPc' = "defer"
    /\ UNCHANGED <<entry, parentCtx, proc, mainPc, srvPc, setupPc, watchPc,
                   rsReg, rsBuf, emReg, emBuf, serverDone, waitGroup,
                   inShutdown, listener, conns, cancelCalled, srvErr,
                   shutdownErr, retErr, sigCount, lateSignal, everConn,
                   cleanupCalls, doneObs, cleanupObs>>
    /\ UNCHANGED certVars

\* defer pc.waitGroup.Done()
em_Done ==
    /\ Alive /\ emPc = "defer"
    /\ waitGroup' = waitGroup - 1
    /\ emPc' = "exited"
    /\ UNCHANGED <<entry, parentCtx, proc, mainPc, srvPc, setupPc, watchPc,
                   rsReg, rsBuf, emReg, emBuf, serverDone,
                   inShutdown, listener, conns, cancelCalled, srvErr,
                   shutdownErr, retErr, sigCount, lateSignal, everConn,
                   cleanupCalls, doneObs, cleanupObs>>
    /\ UNCHANGED certVars

(***************************************************************************)
(* Strings of the certificate authority.  A host string is a sequence of   *)
(* one-character strings, so that net.SplitHostPort and net.ParseIP can be *)
(* computed on it.                                                         *)
(***************************************************************************)
Nil == [nil |-> TRUE]

\* The position of the first c in s at or after position from; 0 if none.
IndexFrom(s, c, from) ==
    LET hits == {i \in from..Len(s) : s[i] = c}
    IN  IF hits = {} THEN 0 ELSE CHOOSE i \in hits : \A j \in hits : i <= j

\* The position of the last c in s; 0 if none.
LastIndex(s, c) ==
    LET hits == {i \in 1..Len(s) : s[i] = c}
    IN  IF hits = {} THEN 0 ELSE CHOOSE i \in hits : \A j \in hits : i >= j

Tail_(s, from) == SubSeq(s, from, Len(s))

\* net.SplitHostPort(hostport): [host, port, err], err = "" on success.
\* Positions are 1-based here, 0-based in Go.
SplitHostPort(hostport) ==
    LET fail(why) == [host |-> <<>>, port |-> <<>>, err |-> why]
        i    == LastIndex(hostport, ":")
        end  == IndexFrom(hostport, "]", 1)
        brk  == hostport[1] = "["
        host == IF brk THEN SubSeq(hostport, 2, end - 1)
                       ELSE SubSeq(hostport, 1, i - 1)
        j    == IF brk THEN 2 ELSE 1
        k    == IF brk THEN end + 1 ELSE 1
    IN  IF i = 0 THEN fail("missing port in address")
        ELSE IF brk /\ end = 0 THEN fail("missing ']' in address")
        ELSE IF brk /\ end = Len(hostport) THEN fail("missing port in address")
        ELSE IF brk /\ end + 1 # i THEN
                 IF hostport[end + 1] = ":"
                   THEN fail("too many colons in address")
                   ELSE fail("missing port in address")
        ELSE IF ~brk /\ IndexFrom(host, ":", 1) # 0
                 THEN fail("too many colons in address")
        ELSE IF IndexFrom(Tail_(hostport, j), "[", 1) # 0
                 THEN fail("unexpected '[' in address")
        ELSE IF IndexFrom(Tail_(hostport, k), "]", 1) # 0
                 THEN fail("unexpected ']' in address")
        ELSE [host |-> host, port |-> Tail_(hostport, i + 1), err |-> ""]

\* GenerateTLSConfig, lines 140-142: the host GenerateTLSConfig goes on
\* with, the port stripped when the string splits.
BareHost(host) ==
    LET r == SplitHostPort(host)
    IN  IF r.err = "" THEN r.host ELSE host

HexDigits == <<"0", "1", "2", "3", "4", "5", "6", "7", "8", "9",
               "a", "b", "c", "d", "e", "f">>

IsHex(c) == \E i \in 1..16 : HexDigits[i] = c
IsDec(c) == \E i \in 1..10 : HexDigits[i] = c
DigitVal(c) == (CHOOSE i \in 1..16 : HexDigits[i] = c) - 1

RECURSIVE NumVal(_, _)
\* The value of the digits s in the given base.
NumVal(s, base) ==
    IF s = <<>> THEN 0
    ELSE NumVal(SubSeq(s, 1, Len(s) - 1), base) * base + DigitVal(s[Len(s)])

RECURSIVE Split(_, _)
\* s cut at every sep.
Split(s, sep) ==
    LET i == IndexFrom(s, sep, 1)
    IN  IF i = 0 THEN <<s>>
        ELSE <<SubSeq(s, 1, i - 1)>> \o Split(Tail_(s, i + 1), sep)

\* Dotted-decimal IPv4: four fields of one to three decimal digits, no
\* leading zero, each at most 255.
ParseIPv4(s) ==
    LET f  == Split(s, ".")
        ok == /\ Len(f) = 4
              /\ \A n \in 1..Len(f) :
                    /\ Len(f[n]) \in 1..3
                    /\ \A d \in 1..Len(f[n]) : IsDec(f[n][d])
                    /\ Len(f[n]) > 1 => f[n][1] # "0"
                    /\ NumVal(f[n], 10) <= 255
    IN  IF ok THEN [v4 |-> [n \in 1..4 |-> NumVal(f[n], 10)]] ELSE Nil

RECURSIVE ParseIPv6Groups(_, _, _)
\* The loop of the IPv6 parser: s is what is left to read, groups the
\* 16-bit groups read so far, ellipsis the number of groups read when "::"
\* was met (-1 if it has not been).  Dotted IPv4 tails and zones are not
\* accepted.
ParseIPv6Groups(s, groups, ellipsis) ==
    LET stop == IndexFrom(s, ":", 1)
        n    == IF stop = 0 THEN Len(s) ELSE stop - 1
        num  == SubSeq(s, 1, n)
        rest == Tail_(s, n + 1)
        good == /\ n \in 1..4
                /\ \A d \in 1..n : IsHex(num[d])
                /\ Len(groups) < 8
        gs   == Append(groups, NumVal(num, 16))
        fill == [x \in 1..(8 - Len(gs)) |-> 0]
        done(all, e) ==
            IF Len(all) = 8 /\ e < 0 THEN [v6 |-> all]
            ELSE IF Len(all) < 8 /\ e >= 0
                 THEN [v6 |-> SubSeq(all, 1, e) \o
                              [x \in 1..(8 - Len(all)) |-> 0] \o
                              SubSeq(all, e + 1, Len(all))]
            ELSE Nil
    IN  IF ~good THEN Nil
        ELSE IF rest = <<>> THEN done(gs, ellipsis)
        ELSE IF Len(rest) = 1 THEN Nil
        ELSE IF rest[2] = ":"
             THEN IF ellipsis >= 0 THEN Nil
                  ELSE IF Len(rest) = 2 THEN done(gs, Len(gs))
                  ELSE ParseIPv6Groups(Tail_(rest, 3), gs, Len(gs))
        ELSE ParseIPv6Groups(Tail_(rest, 2), gs, ellipsis)

ParseIPv6(s) ==
    IF Len(s) >= 2 /\ s[1] = ":" /\ s[2] = ":"
      THEN IF Len(s) = 2 THEN [v6 |-> [x \in 1..8 |-> 0]]
           ELSE ParseIPv6Groups(Tail_(s, 3), <<>>, 0)
      ELSE ParseIPv6Groups(s, <<>>, -1)

\* net.ParseIP(s): the first '.' or ':' decides the family; Nil if s is no
\* IP literal.
ParseIP(s) ==
    LET dot   == IndexFrom(s, ".", 1)
        colon == IndexFrom(s, ":", 1)
    IN  IF dot = 0 /\ colon = 0 THEN Nil
        ELSE IF colon = 0 \/ (dot # 0 /\ dot < colon) THEN ParseIPv4(s)
        ELSE ParseIPv6(s)

(***************************************************************************)
(* Bounds and inputs of the certificate authority.                         *)
(***************************************************************************)
\* goroutines calling GenerateTLSConfig
NCallers == 2
\* calls of GenerateTLSConfig in one run
MaxCalls == 3

Callers == 1..NCallers

\* The host strings callers ask for: names and IP literals, with and
\* without a port, bracketed and not.
HostInputs ==
    { <<"a">>,                                  \* a
      <<"a", ":", "8">>,                        \* a:8
      <<"b">>,                                  \* b
      <<"1", ".", "2", ".", "3", ".", "4">>,    \* 1.2.3.4
      <<"1", ".", "2", ".", "3", ".", "4", ":", "8">>,  \* 1.2.3.4:8
      <<":", ":", "1">>,                        \* ::1
      <<"[", ":", ":", "1", "]", ":", "8">>,    \* [::1]:8
      <<"[", ":", ":", "1", "]">> }             \* [::1]

\* s is the string h followed by a colon and a decimal port.
PortSuffixOf(s, h) ==
    /\ Len(s) > Len(h) + 1
    /\ SubSeq(s, 1, Len(h)) = h
    /\ s[Len(h) + 1] = ":"
    /\ \A i \in (Len(h) + 2)..Len(s) : IsDec(s[i])

\* One run asks for one host string, for two strings naming the same host,
\* for a string and the same string with a port, or for the name "a" and
\* another host.
Pools == {pl \in {{g, h} : g \in HostInputs, h \in HostInputs} :
             \/ <<"a">> \in pl
             \/ \A g \in pl, h \in pl : BareHost(g) = BareHost(h)
             \/ \E g \in pl, h \in pl : PortSuffixOf(g, h)}

(***************************************************************************)
(* template (lines 197-224) and GeneratePem (lines 172-195).               *)
(***************************************************************************)
Alphabet == HexDigits \o <<".", ":", "[", "]">>

CharCode(c) == CHOOSE i \in 1..Len(Alphabet) : Alphabet[i] = c

RECURSIVE Digest(_)
\* Stands for the MD5 digest of the host bytes read as a big integer (lines
\* 198-202): a number computed from the bytes of the string and from nothing
\* else.
Digest(s) ==
    IF s = <<>> THEN 7
    ELSE (Digest(SubSeq(s, 1, Len(s) - 1)) * 31 + CharCode(s[Len(s)])) % 65521

\* A template that names the host as a DNS name whatever it is.
template_AlwaysDNS(host) ==
    LET ip == ParseIP(host)
    IN  [SerialNumber |-> Digest(host),
         CommonName   |-> host,
         IPAddresses  |-> IF ip # Nil THEN <<ip>> ELSE <<>>,
         DNSNames     |-> <<host>>]

\* The certificate template for host: the serial number from the digest,
\* the host as common name, and one subject alternative name, an IP address
\* if the host parses as one and a DNS name otherwise.
template(host) ==
    LET ip == ParseIP(host)
    IN  [SerialNumber |-> Digest(host),
         CommonName   |-> host,
         IPAddresses  |-> IF ip # Nil THEN <<ip>> ELSE <<>>,
         DNSNames     |-> IF ip # Nil THEN <<>> ELSE <<host>>]

\* A GeneratePem that numbers its certificates by the key it drew.
GeneratePem_SerialFromKey(host, k) ==
    [cert |-> [tmpl |-> [template(host) EXCEPT !.SerialNumber = k],
               pub |-> k],
     key |-> k]

\* What GeneratePem returns when key generation and signing succeed with
\* the fresh key pair k: the signed certificate (the template with k's
\* public key) and k's private key.
GeneratePem(host, k) ==
    [cert |-> [tmpl |-> template(host), pub |-> k], key |-> k]

\* tls.X509KeyPair(serverCert, serverKey): the certificate with its private
\* key, or an error when the key does not match the certificate.
X509KeyPair(pem) ==
    IF pem.cert.pub = pem.key
      THEN [cert |-> [leaf |-> pem.cert.tmpl, key |-> pem.key], err |-> ""]
      ELSE [cert |-> Nil, err |-> "tls: private key does not match public key"]

(***************************************************************************)
(* The cache (interface Cache: Get, Set), an atomic map with               *)
(* read-your-write visibility.                                             *)
(***************************************************************************)
CacheGet(c, host) == IF host \in DOMAIN c THEN c[host] ELSE Nil

CacheSet(c, host, cert) ==
    [h \in (DOMAIN c) \cup {host} |-> IF h = host THEN cert ELSE c[h]]

EmptyCache == [h \in {} |-> Nil]

(***************************************************************************)
(* GenerateTLSConfig (lines 139-169), one caller p at a time.              *)
(***************************************************************************)
NoCall == [in |-> <<>>, host |-> <<>>, start |-> 0, conc |-> FALSE,
           hit |-> FALSE, forged |-> FALSE, stored |-> FALSE,
           pem |-> Nil, cert |-> Nil, err |-> ""]

\* Line 144: the cache answered with a certificate.
CacheHit(cert) == cert # Nil

\* A GenerateTLSConfig that never stores what it forged.
StoresCert_Never(on) == FALSE

\* Line 164: the new certificate is stored.
StoresCert(on) == on

\* A failed forge that hands back a certificate without a key.
FailedForge_Partial(call, why) ==
    [call EXCEPT !.forged = TRUE, !.err = why,
                 !.cert = [leaf |-> template(call.host), key |-> 0]]

\* Lines 153-155: GeneratePem failed, the call returns nil and the error.
FailedForge(call, why) == [call EXCEPT !.forged = TRUE, !.err = why]

\* The call of p returns: it joins the completed calls (the PEM pair is a
\* local of the call and is dropped).
Return(p, call) ==
    /\ log' = Append(log, [call EXCEPT !.pem = Nil])
    /\ cpc' = [cpc EXCEPT ![p] = "idle"]
    /\ cur' = [cur EXCEPT ![p] = NoCall]

\* GenerateTLSConfig(host) is called, lines 140-143: the port is stripped.
\* Callers are interchangeable goroutines: the idle one of least number
\* makes the call.
cert_Call(p, host) ==
    /\ cpc[p] = "idle"
    /\ \A q \in Callers : q < p => cpc[q] # "idle"
    /\ started < MaxCalls
    /\ started' = started + 1
    /\ cur' = [cur EXCEPT ![p] =
                 [NoCall EXCEPT !.in = host,
                                !.host = BareHost(host),
                                !.start = Len(log),
                                !.conc = \E q \in Callers : cpc[q] # "idle"]]
    /\ cpc' = [cpc EXCEPT ![p] = IF cacheOn THEN "get" ELSE "forge"]
    /\ UNCHANGED <<cacheOn, pool, cache, log, nextKey>>
    /\ UNCHANGED lifeVars

\* Lines 144-150: c.cache.Get(host); a hit returns the cached certificate.
cert_Get(p) ==
    /\ cpc[p] = "get"
    /\ LET c == CacheGet(cache, cur[p].host)
       IN  IF CacheHit(c)
             THEN Return(p, [cur[p] EXCEPT !.hit = TRUE, !.cert = c])
             ELSE /\ cpc' = [cpc EXCEPT ![p] = "forge"]
                  /\ UNCHANGED <<cur, log>>
    /\ UNCHANGED <<cacheOn, pool, cache, started, nextKey>>
    /\ UNCHANGED lifeVars

\* Lines 152-155: c.GeneratePem(host).  Either rsa.GenerateKey draws a
\* fresh key pair and x509.CreateCertificate signs the template, or one of
\* the two fails and GeneratePem returns the error alone.
cert_GeneratePem(p) ==
    /\ cpc[p] = "forge"
    /\ \/ /\ cur' = [cur EXCEPT ![p].forged = TRUE,
                                ![p].pem = GeneratePem(cur[p].host, nextKey)]
          /\ nextKey' = nextKey + 1
          /\ cpc' = [cpc EXCEPT ![p] = "pair"]
          /\ UNCHANGED log
       \/ /\ Return(p, FailedForge(cur[p], "GeneratePem failed"))
          /\ UNCHANGED nextKey
    /\ UNCHANGED <<cacheOn, pool, cache, started>>
    /\ UNCHANGED lifeVars

\* Lines 156-168: tls.X509KeyPair, the TLS configuration, c.cache.Set and
\* the return.
cert_KeyPairAndSet(p) ==
    /\ cpc[p] = "pair"
    /\ LET kp == X509KeyPair(cur[p].pem)
       IN  IF kp.err # ""
             THEN /\ Return(p, [cur[p] EXCEPT !.err = kp.err])
                  /\ UNCHANGED cache
             ELSE IF StoresCert(cacheOn)
             THEN /\ cache' = CacheSet(cache, cur[p].host, kp.cert)
                  /\ Return(p, [cur[p] EXCEPT !.cert = kp.cert,
                                              !.stored = TRUE])
             ELSE /\ Return(p, [cur[p] EXCEPT !.cert = kp.cert])
                  /\ UNCHANGED cache
    /\ UNCHANGED <<cacheOn, pool, started, nextKey>>
    /\ UNCHANGED lifeVars

\* NewCertificate(cache), lines 132-136, and the callers about to call.
CertInit ==
    /\ cacheOn \in BOOLEAN
    /\ pool \in Pools
    /\ cache = EmptyCache
    /\ cpc = [p \in Callers |-> "idle"]
    /\ cur = [p \in Callers |-> NoCall]
    /\ log = <<>>
    /\ started = 0
    /\ nextKey = 1

\* The certificate authority unused.
CertIdle ==
    /\ cacheOn = FALSE
    /\ pool = {}
    /\ cache = EmptyCache
    /\ cpc = [p \in Callers |-> "idle"]
    /\ cur = [p \in Callers |-> NoCall]
    /\ log = <<>>
    /\ started = 0
    /\ nextKey = 1

\* The coordinator not started.
LifeIdle ==
    /\ NewProxychannel
    /\ entry = "Run"
    /\ parentCtx = "background"

CertNext ==
    \E p \in Callers :
        \/ \E host \in pool : cert_Call(p, host)
        \/ cert_Get(p)
        \/ cert_GeneratePem(p)
        \/ cert_KeyPairAndSet(p)

CertStart == CertInit /\ LifeIdle

CertSpec == CertStart /\ [][CertNext]_vars

(***************************************************************************)
(* The lifecycle as a whole.                                               *)
(***************************************************************************)
Environment ==
    \/ DeliverSignal
    \/ CancelContext
    \/ srv_Accept
    \/ srv_ConnDone
    \/ Setup_Return

MainStep ==
    \/ Run_GoExtensionManager
    \/ runServer_GoListener
    \/ runServer_Notify
    \/ runServer_RecvSignal
    \/ runServer_GoWatcher
    \/ stop_Shutdown
    \/ stop_Drained
    \/ stop_Deadline
    \/ runServer_Close
    \/ Run_Wait
    \/ RunContext_GoExtensionManager

ServeStep ==
    \/ rsb_ListenAndServe
    \/ rsb_ServeClosed
    \/ rsb_Close
    \/ rsb_Cancel
    \/ listener_Return
    \/ RunContext_Served

ExtensionStep ==
    \/ em_GoSetup
    \/ em_Notify
    \/ em_RecvSignal
    \/ em_ServerDone
    \/ em_Cleanup
    \/ em_CleanupReturn
    \/ em_Done

Init == LifeInit /\ CertIdle

Next ==
    \/ Environment
    \/ MainStep
    \/ ServeStep
    \/ rsb_ServeError
    \/ ExtensionStep
    \/ Setup_Begin
    \/ watcher_ForceExit

Spec == Init /\ [][Next]_vars

\* The Go scheduler runs every goroutine that can take a step; the
\* environment (signals, connections, listener faults, the caller's
\* cancellation, Setup returning) owes nothing.
Fairness ==
    /\ WF_vars(MainStep)
    /\ WF_vars(ServeStep)
    /\ WF_vars(ExtensionStep)
    /\ WF_vars(Setup_Begin)
    /\ WF_vars(watcher_ForceExit)

FairSpec == Spec /\ Fairness

(***************************************************************************)
(* Properties of the lifecycle.                                            *)
(***************************************************************************)
Returned == mainPc = "returned"

\* The listener has fully stopped at the moment o was taken: it accepts
\* nothing, and a server.Shutdown that was started has returned.
ListenerStopped(o) ==
    /\ ~o.accepting
    /\ o.shutdownOn => o.shutdownOver

\* ListenAndServe has met no error of its own (bind or accept failure).
ListenerHealthy == srvErr \in {"none", ErrServerClosed}

\* C1: Cleanup() starts only after the listener has fully stopped: when
\* runExtensionManager receives from serverDone, and when it then invokes
\* Cleanup(), the listener accepts no connection and its shutdown procedure
\* (server.Shutdown in Run) has finished.  Stated here for the executions
\* in which the listener itself met no error.
C1_CleanupAfterListenerStopped ==
    ListenerHealthy =>
        /\ doneObs.seen => ListenerStopped(doneObs)
        /\ cleanupObs.seen => ListenerStopped(cleanupObs)

\* C2: in Run, one termination signal, with no second signal and no
\* connection, always leads to the graceful path and to Run returning.
\* Stated here for the most favourable delivery: the signal has just reached
\* both registered channels, and the listener meets no error of its own.
C2_SingleSignalGraceful ==
    (entry = "Run" /\ sigCount = 1 /\ rsBuf = 1 /\ emBuf = 1)
        ~> (Returned \/ sigCount > 1 \/ everConn \/ ~ListenerHealthy)

\* C3: in Run, a second termination signal delivered after the first and
\* before Cleanup() has completed always ends the process through the forced
\* path, os.Exit(1) of the watcher.  Stated here for the case the claim
\* names: both signals are delivered while runServer, registered, has not
\* yet dequeued the first, and the listener meets no error of its own.
C3_SecondSignalForcesExit ==
    (entry = "Run" /\ lateSignal /\ mainPc = "rs_recv" /\ rsBuf = 1)
        ~> (proc = "exit_forced" \/ ~ListenerHealthy)

\* C4: Cleanup() is invoked at most once, and when the top-level call has
\* returned it has been invoked exactly once, has completed, and was invoked
\* after the listener shutdown: the listener accepted nothing any more,
\* server.Shutdown had returned (Run), ListenAndServe had returned
\* (RunContext).
C4_CleanupExactlyOnce ==
    /\ cleanupCalls <= 1
    /\ Returned =>
         /\ cleanupCalls = 1
         /\ CleanupCompleted
         /\ ListenerStopped(cleanupObs)
         /\ entry = "Run" => cleanupObs.shutdownOver
         /\ entry = "RunContext" => cleanupObs.served

\* Run has returned after its one Cleanup().
C4_Witness == entry = "Run" /\ Returned /\ cleanupCalls = 1

\* C5: when the top-level call has returned, every goroutine it started has
\* terminated.  Stated here for Run and the goroutines Run itself accounts
\* for: the listener goroutine running runServerBlocking, the extension
\* manager and the second-signal watcher (the claim adds the Setup
\* goroutine).
C5_NoGoroutineSurvives ==
    (entry = "Run" /\ Returned) =>
        /\ srvPc = "exited"
        /\ emPc = "exited"
        /\ watchPc \in {"none", "exited"}

\* C6: in RunContext, cancelling the caller's context tears the listener
\* down: ListenAndServe returns and serverDone is closed, with no signal.
C6_CancelStopsListener ==
    (entry = "RunContext" /\ parentCtx = "cancelled" /\ listener = "open")
        ~> serverDone

\* C7, as the claim states it: in Run and in RunContext alike, an error of
\* ListenAndServe other than ErrServerClosed ends the process.
C7_ListenerErrorFatalEverywhere ==
    (~ListenerHealthy) ~> (proc # "alive")

\* C7, amended: the listener goroutine of Run exits the process on every
\* error but ErrServerClosed and never finishes normally with another one;
\* nothing else takes that exit, so ErrServerClosed never causes it and
\* RunContext never does: RunContext hands the error to its caller.
C7_ListenerErrorFatalInRun ==
    /\ proc = "exit_listen" => (entry = "Run" /\ ~ListenerHealthy)
    /\ (entry = "Run" /\ srvPc = "exited") => srvErr = ErrServerClosed
    /\ (entry = "RunContext" /\ Returned) =>
           (retErr = srvErr /\ srvErr # "none" /\ Alive)

\* The listener goroutine of Run has exited the process on a listener error.
C7_Witness == proc = "exit_listen" /\ srvErr = "accept error"

\* C8: when server.Shutdown fails on its deadline, stop() having finished,
\* no connection is still being served: the shutdown went on to a forced
\* closure.
C8_DrainFailureForcesClosure ==
    (shutdownErr = "deadline" /\ mainPc \in {"rs_close", "wait", "returned"})
        => conns = 0

(***************************************************************************)
(* Properties of the certificate authority.                                *)
(***************************************************************************)
InFlight(p) == cpc[p] # "idle"

\* No call of the run so far started while another one was in progress.
Sequential ==
    /\ \A i \in 1..Len(log) : ~log[i].conc
    /\ \A p \in Callers : InFlight(p) => ~cur[p].conc

\* No call of the run so far met an error.
NoFailure == \A i \in 1..Len(log) : log[i].err = ""

\* Invocations of GeneratePem for the bare host h, and of cache.Set.
ForgeCount(h) ==
    Cardinality({i \in 1..Len(log) : log[i].forged /\ log[i].host = h})
    + Cardinality({p \in Callers : InFlight(p) /\ cur[p].forged
                                   /\ cur[p].host = h})

SetCount(h) ==
    Cardinality({i \in 1..Len(log) : log[i].stored /\ log[i].host = h})

\* The completed call i is the first completed call for its host.
FirstFor(i) == \A k \in 1..(i - 1) : log[k].host # log[i].host

\* C9: with a cache, in a run of sequential calls, when the first call for
\* a host has succeeded it missed, generated and stored, and every later
\* call for that host hits, generates nothing and returns the same
\* certificate and key: GeneratePem ran exactly once for the host.
C9_SecondCallHits ==
    (cacheOn /\ Sequential) =>
        \A i \in 1..Len(log) :
            (FirstFor(i) /\ log[i].err = "") =>
                /\ ~log[i].hit /\ log[i].forged /\ log[i].stored
                /\ ForgeCount(log[i].host) = 1
                /\ \A j \in (i + 1)..Len(log) :
                       log[j].host = log[i].host =>
                           /\ log[j].hit /\ ~log[j].forged
                           /\ log[j].err = ""
                           /\ log[j].cert = log[i].cert

\* Two sequential calls for one host, the second one a hit.
C9_Witness ==
    /\ cacheOn /\ Sequential
    /\ Len(log) >= 2
    /\ log[1].host = log[2].host
    /\ log[1].err = "" /\ log[1].forged
    /\ log[2].hit /\ log[2].cert.key = log[1].cert.key

\* C10: with a cache, whatever the overlap of the calls, GeneratePem and
\* cache.Set run at most once per host and all callers for a host return
\* one certificate.  Stated here for the runs in which no call fails.
C10_PopulationSerialized ==
    (cacheOn /\ NoFailure) =>
        /\ \A p \in Callers :
               InFlight(p) => /\ ForgeCount(cur[p].host) <= 1
                              /\ SetCount(cur[p].host) <= 1
        /\ \A i \in 1..Len(log) :
               /\ ForgeCount(log[i].host) <= 1
               /\ SetCount(log[i].host) <= 1
               /\ \A j \in 1..Len(log) :
                      log[j].host = log[i].host => log[j].cert = log[i].cert

\* C11: the keys of the cache carry no port and are the subject of the
\* certificate stored under them, and a host string and the same string
\* followed by ":port" are looked up and stored under one key.
C11_BareHostKeys ==
    /\ \A k \in DOMAIN cache :
           /\ SplitHostPort(k).err # ""
           /\ cache[k].leaf.CommonName = k
    /\ \A i \in 1..Len(log) :
           log[i].cert # Nil => log[i].cert.leaf.CommonName = log[i].host
    /\ \A i \in 1..Len(log), j \in 1..Len(log) :
           (/\ cacheOn /\ log[i].err = "" /\ log[j].err = ""
            /\ PortSuffixOf(log[j].in, log[i].in))
               => /\ log[j].host = log[i].host
                  /\ log[j].host \in DOMAIN cache

\* C12: a call that returns an error returns no certificate, has stored
\* nothing, and leaves the cache as it was.
C12_FailureLeavesNoTrace ==
    [][(Len(log') > Len(log) /\ log'[Len(log')].err # "") =>
           /\ log'[Len(log')].cert = Nil
           /\ ~log'[Len(log')].stored
           /\ cache' = cache]_vars

\* A call failed while the cache held a certificate, and a later call for
\* the same host hit that certificate.
C12_Witness ==
    \E i \in 1..Len(log), j \in 1..Len(log) :
        /\ i < j
        /\ log[i].err # "" /\ log[i].host \in DOMAIN cache
        /\ log[j].host = log[i].host /\ log[j].hit

\* The lifecycle state of the coordinator in Run, read off the position of
\* Run and runServer: Starting until both goroutines are launched, Running
\* until the first signal is received (line 121), ShuttingDown until Run
\* returns, ForceKilled after the os.Exit(1) of line 128.
Phase ==
    IF proc = "exit_forced" THEN "ForceKilled"
    ELSE IF mainPc \in {"start", "rs_go"} THEN "Starting"
    ELSE IF mainPc \in {"rs_notify", "rs_recv"} THEN "Running"
    ELSE IF mainPc = "returned" THEN "Stopped"
    ELSE "ShuttingDown"

LifecycleMoves ==
    { <<"Starting", "Running">>, <<"Running", "ShuttingDown">>,
      <<"ShuttingDown", "Stopped">>, <<"ShuttingDown", "ForceKilled">> }

\* C13: in Run the lifecycle state changes only along Starting -> Running
\* -> ShuttingDown -> Stopped and ShuttingDown -> ForceKilled; nothing
\* leaves Stopped.
C13_LifecycleOrder ==
    [][entry = "Run" =>
           (Phase' = Phase \/ <<Phase, Phase'>> \in LifecycleMoves)]_vars

\* The completed call i is the first to have returned a certificate for
\* its host.
FirstSuccessFor(i) ==
    /\ log[i].err = ""
    /\ \A k \in 1..(i - 1) : log[k].host = log[i].host => log[k].err # ""

\* C14: with a cache, a call that starts after the first call for its host
\* has returned a certificate returns that same certificate and key,
\* whatever calls overlap.
C14_StableAfterFirstReturn ==
    cacheOn =>
        \A i \in 1..Len(log), j \in 1..Len(log) :
            (/\ FirstSuccessFor(i)
             /\ log[j].host = log[i].host
             /\ log[j].start >= i
             /\ log[j].err = "")
                => log[j].cert = log[i].cert

\* C15: without a cache every call forges, nothing is stored, no call hits,
\* any two successful calls return different keys, and two successful calls
\* for the same host return certificates with the same serial number, the
\* digest of the host.
C15_NoCacheAlwaysForges ==
    ~cacheOn =>
        /\ cache = EmptyCache
        /\ \A i \in 1..Len(log) :
               /\ log[i].forged /\ ~log[i].hit /\ ~log[i].stored
               /\ log[i].err = "" =>
                      log[i].cert.leaf.SerialNumber = Digest(log[i].host)
        /\ \A i \in 1..Len(log), j \in 1..Len(log) :
               (i # j /\ log[i].err = "" /\ log[j].err = "") =>
                   /\ log[i].cert.key # log[j].cert.key
                   /\ log[i].host = log[j].host =>
                          log[i].cert.leaf.SerialNumber
                              = log[j].cert.leaf.SerialNumber

\* Without a cache, two calls for one host have returned.
C15_Witness ==
    /\ ~cacheOn
    /\ \E i \in 1..Len(log), j \in 1..Len(log) :
           /\ i < j
           /\ log[i].err = "" /\ log[j].err = ""
           /\ log[i].host = log[j].host
           /\ log[i].cert.key # log[j].cert.key

\* C16: in Run, with Setup() running and never returning, one signal
\* received by both registrations leads to Run returning (after Cleanup()),
\* unless a further signal arrives or the listener fails.
C16_BlockedSetupHarmless ==
    (entry = "Run" /\ setupPc = "running"
        /\ sigCount = 1 /\ rsBuf = 1 /\ emBuf = 1)
    ~> (\/ Returned /\ cleanupCalls = 1
        \/ setupPc = "returned"
        \/ sigCount > 1
        \/ ~ListenerHealthy)

\* C17: every certificate returned carries exactly one subject alternative
\* name: the IP address of its host and no DNS name when the host parses as
\* an IP address, the host as DNS name and no IP address otherwise.
C17_OneSubjectAltName ==
    \A i \in 1..Len(log) :
        log[i].cert # Nil =>
            LET t  == log[i].cert.leaf
                ip == ParseIP(log[i].host)
            IN  /\ Len(t.IPAddresses) + Len(t.DNSNames) = 1
                /\ ip # Nil => t.IPAddresses = <<ip>> /\ t.DNSNames = <<>>
                /\ ip = Nil => t.DNSNames = <<log[i].host>>
                               /\ t.IPAddresses = <<>>

\* A certificate for a name and a certificate for an IP address have been
\* returned.
C17_Witness ==
    \E i \in 1..Len(log), j \in 1..Len(log) :
        /\ log[i].cert # Nil /\ log[j].cert # Nil
        /\ log[i].cert.leaf.DNSNames = << <<"a">> >>
        /\ Len(log[j].cert.leaf.IPAddresses) = 1

\* C18: no execution closes serverDone when it is already closed: the
\* process never panics.
C18_ServerDoneClosedOnce == proc # "panic"

\* C19: in RunContext, once serverDone is closed Cleanup() is eventually
\* run and RunContext eventually returns, signal or no signal.
C19_ListenerStopEndsRunContext ==
    (entry = "RunContext" /\ serverDone) ~> (Returned /\ cleanupCalls = 1)

\* C20: when Cleanup() is called, the goroutine started for Setup() has
\* begun to execute it.
C20_CleanupAfterSetupStarted ==
    cleanupObs.seen => cleanupObs.setup \in {"running", "returned"}

=============================================================================
